---- MODULE Spec2Model ----
(***************************************************************************)
(* Model of the wrapper emitted by versioned_api_impl                      *)
(* (simics-macro/src/versioned/mod.rs): a per-function OnceLock<bool> gate *)
(* computed from the resolved host version and the declared valid/invalid  *)
(* requirement lists, the UnsupportedCall error path, and the forwarding   *)
(* to the renamed implementation with the Ok-normalisation of its result.  *)
(*                                                                         *)
(* A panic (`expect`) unwinds the calling thread only; a build that aborts *)
(* the whole process on panic produces the prefixes of these behaviours in *)
(* which no caller takes a step after the panic.                           *)
(***************************************************************************)
EXTENDS Naturals, Sequences, FiniteSets

VARIABLES
    hostVersion,    \* the string the process-wide resolver yields on success
    decl,           \* per wrapped function: valid, invalid, declared output
    enabled,        \* VERSIONED_ENABLED_<N>: the OnceLock<bool> cell
    running,        \* callers currently inside the cell's init closure
    pc,             \* position of each caller in the wrapper body
    fn,             \* the wrapped function each caller is calling
    version,        \* closure local `version` source string of each caller
    observed,       \* what get_or_init returned to each caller
    result,         \* what the wrapper returned to each caller
    resolver_calls, \* per function: resolver invocations, by phase
    computations,   \* per function: number of init closure runs started
    cell_writes,    \* per function: number of writes of the cell
    impl_calls,     \* per caller: invocations of versioned_<n>
    returned,       \* per caller: the value versioned_<n> returned
    resolved,       \* per caller: outcome of its resolver invocation at `?`
    parsed,         \* the literals an init closure parsed, in order, and its outcome
    item,           \* the annotated function versioned_api_impl was applied to
    emitted,        \* the tokens versioned_api_impl returned for it
    scope,          \* the names emitted so far into the enclosing module
    include_dir,    \* the path PythonVersion::parse_from_include_dir is given
    py_version,     \* a PythonVersion, its Display string, what parsing returned
    lib_dir,        \* the directory and configuration of a library search
    lib_found,      \* the files left by the filter, what the search returned
    discovery,      \* discover_python_environment_from_base: position and outcomes
    build           \* cfg evaluation of the items of snapshots.rs

vars == <<hostVersion, decl, enabled, running, pc, fn, version, observed,
          result, resolver_calls, computations, cell_writes, impl_calls,
          returned, resolved, parsed, item, emitted, scope,
          include_dir, py_version, lib_dir, lib_found, discovery, build>>

\* The state of the Python discovery utilities and of the snapshot module.
uvars == <<include_dir, py_version, lib_dir, lib_found, discovery, build>>

\* The state of the macro expansion.
gvars == <<item, emitted, scope>>

\* ------------------------------------------------------------------ bounds
NumCallers == 2
MaxLen == 2

Callers == 1..NumCallers

\* --------------------------------------------------- versions, requirements
\* Version strings the resolver may yield; the last one is not a version.
VersionStrings == {"6.0.173", "6.0.175", "six"}

\* Requirement literals a declaration may carry; the last one is malformed.
Literals == {">=6.0.174", "=6.0.175", ">>6"}

NoParse == [ok |-> FALSE]

\* versions::Versioning::new: Some(version) or None.
VersioningNew(s) ==
    CASE s = "6.0.173" -> [ok |-> TRUE, v |-> <<6, 0, 173>>]
      [] s = "6.0.175" -> [ok |-> TRUE, v |-> <<6, 0, 175>>]
      [] OTHER -> NoParse

\* versions::Requirement::new: Some(requirement) or None.
RequirementNew(s) ==
    CASE s = ">=6.0.174" -> [ok |-> TRUE, op |-> ">=", v |-> <<6, 0, 174>>]
      [] s = "=6.0.175" -> [ok |-> TRUE, op |-> "=", v |-> <<6, 0, 175>>]
      [] OTHER -> NoParse

VersionLess(a, b) ==
    \/ a[1] < b[1]
    \/ a[1] = b[1] /\ a[2] < b[2]
    \/ a[1] = b[1] /\ a[2] = b[2] /\ a[3] < b[3]

\* requirement.matches(&version)
Matches(req, ver) ==
    CASE req.op = "=" -> ver = req.v
      [] req.op = ">=" -> ver = req.v \/ VersionLess(req.v, ver)
      [] req.op = ">" -> VersionLess(req.v, ver)
      [] req.op = "<=" -> ver = req.v \/ VersionLess(ver, req.v)
      [] req.op = "<" -> VersionLess(ver, req.v)
      [] OTHER -> FALSE

\* Mutant: a literal that does not parse is passed over as a non-match.
RECURSIVE AnyFrom_SkipMalformed(_, _, _)
AnyFrom_SkipMalformed(list, i, ver) ==
    IF i > Len(list) THEN "false"
    ELSE LET requirement == RequirementNew(list[i])
         IN  IF ~requirement.ok THEN AnyFrom_SkipMalformed(list, i + 1, ver)
             ELSE IF Matches(requirement, ver) THEN "true"
             ELSE AnyFrom_SkipMalformed(list, i + 1, ver)

\* slice.iter().any(|v| Requirement::new(v).expect(..).matches(&version)):
\* left to right, stops at the first match, panics on a literal that does
\* not parse when it is reached.  "true", "false" or "panic".
RECURSIVE AnyFrom(_, _, _)
AnyFrom(list, i, ver) ==
    IF i > Len(list) THEN "false"
    ELSE LET requirement == RequirementNew(list[i])
         IN  IF ~requirement.ok THEN "panic"
             ELSE IF Matches(requirement, ver) THEN "true"
             ELSE AnyFrom(list, i + 1, ver)

AnyMatches(list, ver) == AnyFrom(list, 1, ver)

\* Mutant: the allow list wins over the deny list.
GateValue_ValidWins(is_valid, is_invalid) ==
    IF is_valid THEN TRUE
    ELSE FALSE

\* if is_invalid { false } else if !is_valid { false } else { true }
GateValue(is_valid, is_invalid) ==
    IF is_invalid THEN FALSE
    ELSE IF ~is_valid THEN FALSE
    ELSE TRUE

\* Mutant: an empty valid list is read as "no restriction".
GateCompute_EmptyValidAllows(d, s) ==
    LET parsedVersion == VersioningNew(s)
    IN  IF ~parsedVersion.ok THEN "panic"
        ELSE LET is_valid == IF Len(d.valid) = 0 THEN "true"
                             ELSE AnyMatches(d.valid, parsedVersion.v)
             IN  IF is_valid = "panic" THEN "panic"
                 ELSE LET is_invalid == AnyMatches(d.invalid, parsedVersion.v)
                      IN  IF is_invalid = "panic" THEN "panic"
                          ELSE IF GateValue(is_valid = "true", is_invalid = "true")
                               THEN "true" ELSE "false"

\* The body of the init closure after the version string was resolved:
\* "panic" or the boolean to store, as "true" / "false".
GateCompute(d, s) ==
    LET parsedVersion == VersioningNew(s)
    IN  IF ~parsedVersion.ok THEN "panic"
        ELSE LET is_valid == AnyMatches(d.valid, parsedVersion.v)
             IN  IF is_valid = "panic" THEN "panic"
                 ELSE LET is_invalid == AnyMatches(d.invalid, parsedVersion.v)
                      IN  IF is_invalid = "panic" THEN "panic"
                          ELSE IF GateValue(is_valid = "true", is_invalid = "true")
                               THEN "true" ELSE "false"

\* The literals one `any` hands to Requirement::new, in order: up to and
\* including the first that does not parse or that matches.
RECURSIVE AnyTrace(_, _, _, _)
AnyTrace(list, i, ver, which) ==
    IF i > Len(list) THEN <<>>
    ELSE LET requirement == RequirementNew(list[i])
         IN  IF ~requirement.ok THEN << <<which, i>> >>
             ELSE IF Matches(requirement, ver) THEN << <<which, i>> >>
             ELSE << <<which, i>> >> \o AnyTrace(list, i + 1, ver, which)

\* Mutant: the deny list is evaluated first and a match on it ends the
\* evaluation.
GateTrace_InvalidFirst(d, s) ==
    LET parsedVersion == VersioningNew(s)
    IN  IF ~parsedVersion.ok THEN <<>>
        ELSE LET ti == AnyTrace(d.invalid, 1, parsedVersion.v, "invalid")
             IN  IF AnyMatches(d.invalid, parsedVersion.v) \in {"panic", "true"}
                 THEN ti
                 ELSE ti \o AnyTrace(d.valid, 1, parsedVersion.v, "valid")

\* The literals the init closure parses, in order: `let is_valid = ..` runs
\* to its end, then `let is_invalid = ..`, unless the first panicked.
GateTrace(d, s) ==
    LET parsedVersion == VersioningNew(s)
    IN  IF ~parsedVersion.ok THEN <<>>
        ELSE LET tv == AnyTrace(d.valid, 1, parsedVersion.v, "valid")
             IN  IF AnyMatches(d.valid, parsedVersion.v) = "panic"
                 THEN tv
                 ELSE tv \o AnyTrace(d.invalid, 1, parsedVersion.v, "invalid")

\* ------------------------------------------------------------ return types
\* syn::ReturnType of the declaration: Default, a path type (its segments)
\* or a type that is no path.
ReturnTypes ==
    { [kind |-> "Default", segments |-> <<>>],
      [kind |-> "Path", segments |-> <<"Result", "Item">>],
      [kind |-> "Path", segments |-> <<"crate", "Result">>],
      [kind |-> "Tuple", segments |-> <<>>] }

\* Mutant: the first path segment is tested instead of the last.
IsResultType_First(output) ==
    CASE output.kind = "Default" -> FALSE
      [] output.kind = "Path" ->
            IF Len(output.segments) = 0 THEN FALSE
            ELSE output.segments[1] = "Result"
      [] OTHER -> FALSE

\* IsResultType::is_result_type
IsResultType(output) ==
    CASE output.kind = "Default" -> FALSE
      [] output.kind = "Path" ->
            IF Len(output.segments) = 0 THEN FALSE
            ELSE output.segments[Len(output.segments)] = "Result"
      [] OTHER -> FALSE

\* sig.output of the wrapper: kept, or crate::error::Result<original or ()>.
WrapperOutput(output) ==
    IF IsResultType(output) THEN output
    ELSE [kind |-> "Path", segments |-> <<"crate", "error", "Result">>,
          arg |-> IF output.kind = "Default"
                  THEN [kind |-> "Unit", segments |-> <<>>] ELSE output]

\* Values versioned_<n> may produce, by the type it is declared to return:
\* of the path types above, crate::Result is a Result and Result::Item is not.
ImplValues(output) ==
    IF output.kind = "Path" /\ output.segments = <<"crate", "Result">>
    THEN { [tag |-> "Ok", val |-> [k |-> "value", v |-> "v"]],
           [tag |-> "Err", val |-> [k |-> "error", v |-> "e"]] }
    ELSE IF output.kind = "Default" THEN { [k |-> "unit", v |-> "()"] }
    ELSE { [k |-> "value", v |-> "v"] }

\* Mutant: the implementation's value is returned as it is, never wrapped.
OkReturn_Bare(output, r) == r

\* #ok_return: `result` or `Ok(result)`.
OkReturn(output, r) ==
    IF IsResultType(output) THEN r ELSE [tag |-> "Ok", val |-> r]

\* Mutant: the two lists end up in each other's field.
UnsupportedCall_Swapped(v, d) ==
    [tag |-> "Err",
     val |-> [k |-> "UnsupportedCall", version |-> v,
              invalid |-> [i \in 1..Len(d.valid) |-> d.valid[i]],
              valid |-> [i \in 1..Len(d.invalid) |-> d.invalid[i]]]]

\* Err(crate::error::Error::UnsupportedCall { version, invalid, valid })
UnsupportedCall(v, d) ==
    [tag |-> "Err",
     val |-> [k |-> "UnsupportedCall", version |-> v,
              invalid |-> [i \in 1..Len(d.invalid) |-> d.invalid[i]],
              valid |-> [i \in 1..Len(d.valid) |-> d.valid[i]]]]

\* ---------------------------------------------------------------- resolver
\* crate::version_base_semver() -> Result<String>: the host version string,
\* or a failure, on every invocation.
ResolverError == [k |-> "ResolverError", v |-> "e"]

VersionBaseSemver(host) == { [ok |-> TRUE, s |-> host], [ok |-> FALSE, s |-> "none"] }

\* `version_base_semver()?`: the failure as the wrapper's Err.
PropagatedError == [tag |-> "Err", val |-> ResolverError]

\* ------------------------------------------------------------ declarations
Lists == UNION { [1..n -> Literals] : n \in 0..MaxLen }

Decls == [valid : Lists, invalid : Lists, output : ReturnTypes]

WrappedNames == {"take_snapshot"}

\* --------------------------------------------------------- macro expansion
\* Identifiers are sequences of characters.
MaxParams == 2

MaxScope == 2

Idents == { <<"f">>, <<"g">>, <<"F">> }

\* char::to_ascii_uppercase on the characters that occur.
UpperChar(ch) ==
    CASE ch = "d" -> "D" [] ch = "e" -> "E" [] ch = "f" -> "F"
      [] ch = "g" -> "G" [] ch = "i" -> "I" [] ch = "n" -> "N"
      [] ch = "o" -> "O" [] ch = "r" -> "R" [] ch = "s" -> "S"
      [] ch = "v" -> "V"
      [] OTHER -> ch

\* str::to_ascii_uppercase
ToAsciiUppercase(name) == [i \in 1..Len(name) |-> UpperChar(name[i])]

\* format_ident!("versioned_{}", input.sig.ident)
InnerIdent(ident) ==
    <<"v", "e", "r", "s", "i", "o", "n", "e", "d", "_">> \o ident

\* input_name: the identifier of the renamed declaration, as a string.
InputName(ident) == InnerIdent(ident)

\* format_ident!("VERSIONED_ENABLED_{}", input_name.to_ascii_uppercase())
StaticName(ident) ==
    <<"V", "E", "R", "S", "I", "O", "N", "E", "D", "_",
      "E", "N", "A", "B", "L", "E", "D", "_">>
        \o ToAsciiUppercase(InputName(ident))

\* format_ident!("VERSIONED_VALID_{}", input_name.to_ascii_uppercase())
ConstValidName(ident) ==
    <<"V", "E", "R", "S", "I", "O", "N", "E", "D", "_",
      "V", "A", "L", "I", "D", "_">>
        \o ToAsciiUppercase(InputName(ident))

\* format_ident!("VERSIONED_INVALID_{}", input_name.to_ascii_uppercase())
ConstInvalidName(ident) ==
    <<"V", "E", "R", "S", "I", "O", "N", "E", "D", "_",
      "I", "N", "V", "A", "L", "I", "D", "_">>
        \o ToAsciiUppercase(InputName(ident))

\* syn::FnArg: a receiver or a typed pattern.
Receiver == [arg |-> "Receiver", pat |-> "self"]

FnArgKinds ==
    { Receiver, [arg |-> "Typed", pat |-> "a"], [arg |-> "Typed", pat |-> "b"] }

\* Parameter lists: no pattern binds a name twice.
Inputs ==
    { ps \in UNION { [1..n -> FnArgKinds] : n \in 0..MaxParams } :
        \A i, j \in 1..Len(ps) : ps[i] = ps[j] => i = j }

\* syn::Attribute by the form of its meta.
DocComment == [meta |-> "NameValue", path |-> <<"doc">>, value |-> "text"]

DocHidden == [meta |-> "List", path |-> <<"doc">>, value |-> "hidden"]

Deprecated == [meta |-> "NameValue", path |-> <<"deprecated">>, value |-> "note"]

Inline == [meta |-> "Path", path |-> <<"inline">>, value |-> ""]

AllowNonSnakeCase == [meta |-> "List", path |-> <<"allow">>, value |-> "non_snake_case"]

\* VersionedApiOpts: the valid and invalid literals of the attribute.
NoOpts == [valid |-> <<>>, invalid |-> <<>>]

SomeOpts == [valid |-> <<">=6.0.174", "=6.0.175">>, invalid |-> <<"=6.0.175", ">>6">>]

OriginalBody == [tokens |-> "block"]

\* What a declaration carries besides its name and parameters: visibility,
\* generic parameters, return type, attributes and the attribute's arguments.
Shapes ==
    { [vis |-> "pub", generics |-> <<>>,
       output |-> [kind |-> "Default", segments |-> <<>>],
       attrs |-> <<DocComment>>, args |-> NoOpts],
      [vis |-> "inherited", generics |-> <<"T">>,
       output |-> [kind |-> "Path", segments |-> <<"crate", "Result">>],
       attrs |-> <<Inline, DocComment, Deprecated, DocHidden>>, args |-> SomeOpts],
      [vis |-> "pub(crate)", generics |-> <<"T">>,
       output |-> [kind |-> "Tuple", segments |-> <<>>],
       attrs |-> <<>>, args |-> SomeOpts],
      [vis |-> "pub", generics |-> <<>>,
       output |-> [kind |-> "Path", segments |-> <<"Result", "Item">>],
       attrs |-> <<DocHidden, DocComment, DocComment>>, args |-> NoOpts] }

\* The annotated function (syn::ItemFn) with the attribute's arguments.
Items ==
    { [ident |-> n, vis |-> sh.vis, generics |-> sh.generics, inputs |-> ps,
       output |-> sh.output, attrs |-> sh.attrs, block |-> OriginalBody,
       args |-> sh.args] : n \in Idents, ps \in Inputs, sh \in Shapes }

\* doc_attrs: the attributes whose meta is a name-value with first path
\* segment `doc`, in their order.
DocAttrs(attrs) ==
    SelectSeq(attrs, LAMBDA a : a.meta = "NameValue" /\ a.path[1] = "doc")

None == [some |-> FALSE]

\* Mutant: receivers are dropped from the argument list.
FnArgs_SkipReceiver(inputs) ==
    LET typed == SelectSeq(inputs, LAMBDA p : p.arg = "Typed")
    IN  [some |-> TRUE, pats |-> [i \in 1..Len(typed) |-> typed[i].pat]]

\* Mutant: the patterns are collected in reverse.
FnArgs_Reversed(inputs) ==
    IF \E i \in 1..Len(inputs) : inputs[i].arg = "Receiver" THEN None
    ELSE [some |-> TRUE,
          pats |-> [i \in 1..Len(inputs) |-> inputs[Len(inputs) + 1 - i].pat]]

\* fnargs: each input mapped to Some(pattern), a receiver to None, and
\* collected as Option<Vec<_>>.
FnArgs(inputs) ==
    IF \E i \in 1..Len(inputs) : inputs[i].arg = "Receiver" THEN None
    ELSE [some |-> TRUE, pats |-> [i \in 1..Len(inputs) |-> inputs[i].pat]]

\* maybe_ty_generics: the turbofish of the inner call.
MaybeTyGenerics(generics) ==
    IF Len(generics) = 0 THEN None ELSE [some |-> TRUE, params |-> generics]

\* Mutant: the declaration keeps its visibility when it is renamed.
InnerFn_KeepVis(it) ==
    [item |-> "fn", ident |-> InnerIdent(it.ident), vis |-> it.vis,
     generics |-> it.generics, inputs |-> it.inputs, output |-> it.output,
     attrs |-> it.attrs, block |-> it.block]

\* #input: the declaration renamed to versioned_<n>, visibility inherited,
\* otherwise as written.
InnerFn(it) ==
    [item |-> "fn", ident |-> InnerIdent(it.ident), vis |-> "inherited",
     generics |-> it.generics, inputs |-> it.inputs, output |-> it.output,
     attrs |-> it.attrs, block |-> it.block]

\* static VERSIONED_ENABLED_<N>: OnceLock<bool> = OnceLock::new();
GateStatic(it) ==
    [item |-> "static", ident |-> StaticName(it.ident), vis |-> "inherited",
     ty |-> "OnceLock<bool>", init |-> "OnceLock::new()"]

\* const VERSIONED_VALID_<N>: &[&str] = &[#(#valid),*];
ValidConst(it) ==
    [item |-> "const", ident |-> ConstValidName(it.ident), vis |-> "inherited",
     ty |-> "&[&str]", elems |-> it.args.valid]

\* const VERSIONED_INVALID_<N>: &[&str] = &[#(#invalid),*];
InvalidConst(it) ==
    [item |-> "const", ident |-> ConstInvalidName(it.ident), vis |-> "inherited",
     ty |-> "&[&str]", elems |-> it.args.invalid]

\* The emitted wrapper: #[allow(non_snake_case)] #(#doc_attrs)* #vis #sig
\* with the gate test and the call of the inner function as its body.
WrapperFn(it) ==
    [item |-> "fn", ident |-> it.ident, vis |-> it.vis,
     generics |-> it.generics, inputs |-> it.inputs,
     output |-> WrapperOutput(it.output),
     attrs |-> <<AllowNonSnakeCase>> \o DocAttrs(it.attrs),
     block |-> [gate |-> StaticName(it.ident),
                valid |-> ConstValidName(it.ident),
                invalid |-> ConstInvalidName(it.ident),
                callee |-> InnerIdent(it.ident),
                turbofish |-> MaybeTyGenerics(it.generics),
                call_args |-> FnArgs(it.inputs).pats,
                ok_return |-> IF IsResultType(it.output)
                              THEN "result" ELSE "Ok(result)"]]

ReceiverMessage == "Methods with a receiver are not supported"

NoEmit == [kind |-> "none"]

\* versioned_api_impl: a compile error and nothing else for a declaration
\* with a receiver; otherwise quote! { #input #wrapper }.
VersionedApiImpl(it) ==
    IF ~FnArgs(it.inputs).some
    THEN [kind |-> "error", message |-> ReceiverMessage, items |-> <<>>]
    ELSE [kind |-> "items",
          items |-> <<InnerFn(it), GateStatic(it), ValidConst(it),
                      InvalidConst(it), WrapperFn(it)>>]

\* The names an expansion adds to the enclosing module, with the function
\* they were generated for.
Names(it, e) ==
    { [owner |-> it.ident, item |-> e.items[i].item, name |-> e.items[i].ident] :
        i \in 1..Len(e.items) }

\* The i-th argument of the emitted inner call, evaluated in the wrapper's
\* body, where each parameter pattern is bound to the argument in its place.
Forwarded(w, argv) ==
    [i \in 1..Len(w.block.call_args) |->
        argv[CHOOSE j \in 1..Len(w.inputs) : w.inputs[j].pat = w.block.call_args[i]]]

ArgValues == {"u", "w"}

NoResult == [tag |-> "None"]

\* A utility that has been given no input.
NoInput == [kind |-> "none"]

UtilsIdle ==
    /\ include_dir = NoInput
    /\ py_version = NoInput
    /\ lib_dir = NoInput
    /\ lib_found = NoInput
    /\ discovery = NoInput
    /\ build = NoInput

NoTrace == [fn |-> "none", trace |-> <<>>, value |-> "none"]

Init ==
    /\ hostVersion \in VersionStrings
    /\ decl \in [WrappedNames -> Decls]
    /\ enabled = [f \in WrappedNames |-> "Uninitialized"]
    /\ running = [f \in WrappedNames |-> {}]
    /\ pc = [c \in Callers |-> "idle"]
    /\ fn = [c \in Callers |-> "none"]
    /\ version = [c \in Callers |-> "none"]
    /\ observed = [c \in Callers |-> "none"]
    /\ result = [c \in Callers |-> NoResult]
    /\ resolver_calls = [f \in WrappedNames |-> [warmup |-> 0, error |-> 0]]
    /\ computations = [f \in WrappedNames |-> 0]
    /\ cell_writes = [f \in WrappedNames |-> 0]
    /\ impl_calls = [c \in Callers |-> 0]
    /\ returned = [c \in Callers |-> NoResult]
    /\ resolved = [c \in Callers |-> "none"]
    /\ parsed = NoTrace
    /\ item = NoEmit
    /\ emitted = NoEmit
    /\ scope = {}
    /\ UtilsIdle

Fns == DOMAIN decl

CellOf(b) == IF b = "true" THEN "Enabled" ELSE "Disabled"

CellBool(cell) == IF cell = "Enabled" THEN "true" ELSE "false"

\* Mutant: the gate test without its negation.
GateBranch_Inverted(b) == IF b = "true" THEN "unsupported" ELSE "invoke"

\* Where the wrapper goes with the boolean get_or_init returned:
\* `if !cell { return Err(..) }`, else on to the implementation.
GateBranch(b) == IF b = "true" THEN "invoke" ELSE "unsupported"

\* OnceLock::get_or_init runs the closure only on an uninitialized cell ...
CellUninitialized(f) == enabled[f] = "Uninitialized"

\* Mutant: no exclusion between callers that find the cell uninitialized.
NobodyRunning_Unchecked(f) == TRUE

\* ... and only in one caller at a time: the others block until it ends.
NobodyRunning(f) == running[f] = {}

\* ------------------------------------------------------------------ actions
\* A caller enters the wrapper of f.
Call(c, f) ==
    /\ pc[c] = "idle"
    /\ pc' = [pc EXCEPT ![c] = "gate"]
    /\ fn' = [fn EXCEPT ![c] = f]
    /\ UNCHANGED <<gvars, uvars, parsed, hostVersion, decl, enabled, running, version, observed,
                   result, resolver_calls, computations, cell_writes,
                   impl_calls, returned, resolved>>

\* Mutant: reading the cell takes the value out of it.
GetInitialized_Take(c) ==
    /\ pc[c] = "gate"
    /\ ~CellUninitialized(fn[c])
    /\ observed' = [observed EXCEPT ![c] = CellBool(enabled[fn[c]])]
    /\ pc' = [pc EXCEPT ![c] = GateBranch(CellBool(enabled[fn[c]]))]
    /\ enabled' = [enabled EXCEPT ![fn[c]] = "Uninitialized"]
    /\ UNCHANGED <<gvars, uvars, parsed, hostVersion, decl, running, fn, version, result,
                   resolver_calls, computations, cell_writes, impl_calls,
                   returned, resolved>>

\* get_or_init on an initialized cell: the stored boolean, no closure run.
GetInitialized(c) ==
    /\ pc[c] = "gate"
    /\ ~CellUninitialized(fn[c])
    /\ observed' = [observed EXCEPT ![c] = CellBool(enabled[fn[c]])]
    /\ pc' = [pc EXCEPT ![c] = GateBranch(CellBool(enabled[fn[c]]))]
    /\ UNCHANGED <<gvars, uvars, parsed, hostVersion, decl, enabled, running, fn, version, result,
                   resolver_calls, computations, cell_writes, impl_calls,
                   returned, resolved>>

\* get_or_init on an uninitialized cell nobody is initializing: this caller
\* runs the closure.  A caller that finds another one running it blocks.
StartInit(c) ==
    /\ pc[c] = "gate"
    /\ CellUninitialized(fn[c])
    /\ NobodyRunning(fn[c])
    /\ running' = [running EXCEPT ![fn[c]] = @ \cup {c}]
    /\ computations' = [computations EXCEPT ![fn[c]] = @ + 1]
    /\ pc' = [pc EXCEPT ![c] = "resolve"]
    /\ UNCHANGED <<gvars, uvars, parsed, hostVersion, decl, enabled, fn, version, observed, result,
                   resolver_calls, cell_writes, impl_calls, returned, resolved>>

\* Mutant: the ParseVersion error is built eagerly (ok_or), so the resolver
\* is invoked a second time on every warm-up.
Resolve_Eager(c) ==
    /\ pc[c] = "resolve"
    /\ resolver_calls' = [resolver_calls EXCEPT ![fn[c]].warmup = @ + 2]
    /\ \E r \in VersionBaseSemver(hostVersion) :
          IF r.ok
          THEN /\ version' = [version EXCEPT ![c] = r.s]
               /\ pc' = [pc EXCEPT ![c] = "compute"]
               /\ UNCHANGED running
          ELSE /\ pc' = [pc EXCEPT ![c] = "panicked"]
               /\ running' = [running EXCEPT ![fn[c]] = @ \ {c}]
               /\ UNCHANGED version
    /\ UNCHANGED <<gvars, uvars, parsed, hostVersion, decl, enabled, fn, observed, result,
                   computations, cell_writes, impl_calls, returned, resolved>>

\* Mutant: a panic of the resolver step leaves the cell held by the caller.
Resolve_PanicHoldsCell(c) ==
    /\ pc[c] = "resolve"
    /\ resolver_calls' = [resolver_calls EXCEPT ![fn[c]].warmup = @ + 1]
    /\ \E r \in VersionBaseSemver(hostVersion) :
          IF r.ok
          THEN /\ version' = [version EXCEPT ![c] = r.s]
               /\ pc' = [pc EXCEPT ![c] = "compute"]
          ELSE /\ pc' = [pc EXCEPT ![c] = "panicked"]
               /\ UNCHANGED version
    /\ UNCHANGED <<gvars, uvars, parsed, hostVersion, decl, enabled, running, fn, observed,
                   result, computations, cell_writes, impl_calls, returned,
                   resolved>>

\* crate::version_base_semver().expect("Failed to get base version semver")
Resolve(c) ==
    /\ pc[c] = "resolve"
    /\ resolver_calls' = [resolver_calls EXCEPT ![fn[c]].warmup = @ + 1]
    /\ \E r \in VersionBaseSemver(hostVersion) :
          IF r.ok
          THEN /\ version' = [version EXCEPT ![c] = r.s]
               /\ pc' = [pc EXCEPT ![c] = "compute"]
               /\ UNCHANGED running
          ELSE /\ pc' = [pc EXCEPT ![c] = "panicked"]
               /\ running' = [running EXCEPT ![fn[c]] = @ \ {c}]
               /\ UNCHANGED version
    /\ UNCHANGED <<gvars, uvars, parsed, hostVersion, decl, enabled, fn, observed, result,
                   computations, cell_writes, impl_calls, returned, resolved>>

\* Mutant: one cell serves every wrapped function.
Compute_SharedCell(c) ==
    /\ pc[c] = "compute"
    /\ VersioningNew(version[c]).ok
    /\ LET b == GateCompute(decl[fn[c]], version[c])
       IN  IF b = "panic"
           THEN /\ pc' = [pc EXCEPT ![c] = "panicked"]
                /\ UNCHANGED <<enabled, observed, cell_writes>>
           ELSE /\ enabled' = [f \in Fns |-> CellOf(b)]
                /\ cell_writes' = [cell_writes EXCEPT ![fn[c]] = @ + 1]
                /\ observed' = [observed EXCEPT ![c] = b]
                /\ pc' = [pc EXCEPT ![c] = GateBranch(b)]
    /\ running' = [running EXCEPT ![fn[c]] = @ \ {c}]
    /\ version' = [version EXCEPT ![c] = "none"]
    /\ UNCHANGED <<gvars, uvars, parsed, hostVersion, decl, fn, result, resolver_calls,
                   computations, impl_calls, returned, resolved>>

\* Mutant: a panicking computation leaves false in the cell.
Compute_PanicStoresFalse(c) ==
    /\ pc[c] = "compute"
    /\ VersioningNew(version[c]).ok
    /\ LET b == GateCompute(decl[fn[c]], version[c])
       IN  IF b = "panic"
           THEN /\ pc' = [pc EXCEPT ![c] = "panicked"]
                /\ enabled' = [enabled EXCEPT ![fn[c]] = "Disabled"]
                /\ UNCHANGED <<observed, cell_writes>>
           ELSE /\ enabled' = [enabled EXCEPT ![fn[c]] = CellOf(b)]
                /\ cell_writes' = [cell_writes EXCEPT ![fn[c]] = @ + 1]
                /\ observed' = [observed EXCEPT ![c] = b]
                /\ pc' = [pc EXCEPT ![c] = GateBranch(b)]
    /\ running' = [running EXCEPT ![fn[c]] = @ \ {c}]
    /\ version' = [version EXCEPT ![c] = "none"]
    /\ UNCHANGED <<gvars, uvars, parsed, hostVersion, decl, fn, result, resolver_calls,
                   computations, impl_calls, returned, resolved>>

\* The rest of the closure when the version string parses: evaluate the
\* lists; store the boolean and return it, or panic and leave the cell.
Compute(c) ==
    /\ pc[c] = "compute"
    /\ VersioningNew(version[c]).ok
    /\ LET b == GateCompute(decl[fn[c]], version[c])
       IN  IF b = "panic"
           THEN /\ pc' = [pc EXCEPT ![c] = "panicked"]
                /\ UNCHANGED <<enabled, observed, cell_writes>>
           ELSE /\ enabled' = [enabled EXCEPT ![fn[c]] = CellOf(b)]
                /\ cell_writes' = [cell_writes EXCEPT ![fn[c]] = @ + 1]
                /\ observed' = [observed EXCEPT ![c] = b]
                /\ pc' = [pc EXCEPT ![c] = GateBranch(b)]
    /\ running' = [running EXCEPT ![fn[c]] = @ \ {c}]
    /\ version' = [version EXCEPT ![c] = "none"]
    /\ UNCHANGED <<gvars, uvars, parsed, hostVersion, decl, fn, result, resolver_calls,
                   computations, impl_calls, returned, resolved>>

\* Versioning::new gave None: ok_or_else builds Error::ParseVersion from a
\* second version_base_semver().expect(..), and .expect(..) panics on it.
ParseVersionFailed(c) ==
    /\ pc[c] = "compute"
    /\ ~VersioningNew(version[c]).ok
    /\ resolver_calls' = [resolver_calls EXCEPT ![fn[c]].warmup = @ + 1]
    /\ \E r \in VersionBaseSemver(hostVersion) : r.ok \in BOOLEAN
    /\ pc' = [pc EXCEPT ![c] = "panicked"]
    /\ running' = [running EXCEPT ![fn[c]] = @ \ {c}]
    /\ version' = [version EXCEPT ![c] = "none"]
    /\ UNCHANGED <<gvars, uvars, parsed, hostVersion, decl, enabled, fn, observed, result,
                   computations, cell_writes, impl_calls, returned, resolved>>

\* Mutant: the resolver's failure is unwrapped with expect instead of `?`.
Unsupported_Expect(c) ==
    /\ pc[c] = "unsupported"
    /\ resolver_calls' = [resolver_calls EXCEPT ![fn[c]].error = @ + 1]
    /\ \E r \in VersionBaseSemver(hostVersion) :
          /\ resolved' = [resolved EXCEPT ![c] = IF r.ok THEN "ok" ELSE "err"]
          /\ IF r.ok
             THEN /\ result' = [result EXCEPT ![c] =
                                   UnsupportedCall(r.s, decl[fn[c]])]
                  /\ pc' = [pc EXCEPT ![c] = "done"]
             ELSE /\ pc' = [pc EXCEPT ![c] = "panicked"]
                  /\ UNCHANGED result
    /\ UNCHANGED <<gvars, uvars, parsed, hostVersion, decl, enabled, running, fn, version, observed,
                   computations, cell_writes, impl_calls, returned>>

\* Mutant: the payload takes the caller's own `version` local, which only a
\* caller inside the closure has.
Unsupported_LocalVersion(c) ==
    /\ pc[c] = "unsupported"
    /\ resolver_calls' = [resolver_calls EXCEPT ![fn[c]].error = @ + 1]
    /\ \E r \in VersionBaseSemver(hostVersion) :
          /\ resolved' = [resolved EXCEPT ![c] = IF r.ok THEN "ok" ELSE "err"]
          /\ result' = [result EXCEPT ![c] =
                           IF r.ok THEN UnsupportedCall(version[c], decl[fn[c]])
                           ELSE PropagatedError]
    /\ pc' = [pc EXCEPT ![c] = "done"]
    /\ UNCHANGED <<gvars, uvars, parsed, hostVersion, decl, enabled, running, fn, version, observed,
                   computations, cell_writes, impl_calls, returned>>

\* return Err(UnsupportedCall { version: version_base_semver()?, .. })
Unsupported(c) ==
    /\ pc[c] = "unsupported"
    /\ resolver_calls' = [resolver_calls EXCEPT ![fn[c]].error = @ + 1]
    /\ \E r \in VersionBaseSemver(hostVersion) :
          /\ resolved' = [resolved EXCEPT ![c] = IF r.ok THEN "ok" ELSE "err"]
          /\ result' = [result EXCEPT ![c] =
                           IF r.ok THEN UnsupportedCall(r.s, decl[fn[c]])
                           ELSE PropagatedError]
    /\ pc' = [pc EXCEPT ![c] = "done"]
    /\ UNCHANGED <<gvars, uvars, parsed, hostVersion, decl, enabled, running, fn, version, observed,
                   computations, cell_writes, impl_calls, returned>>

\* let result = versioned_<n>(args); #ok_return
Invoke(c) ==
    /\ pc[c] = "invoke"
    /\ impl_calls' = [impl_calls EXCEPT ![c] = @ + 1]
    /\ \E r \in ImplValues(decl[fn[c]].output) :
          /\ returned' = [returned EXCEPT ![c] = r]
          /\ result' = [result EXCEPT ![c] = OkReturn(decl[fn[c]].output, r)]
    /\ pc' = [pc EXCEPT ![c] = "done"]
    /\ UNCHANGED <<gvars, uvars, parsed, hostVersion, decl, enabled, running, fn, version, observed,
                   resolver_calls, computations, cell_writes, resolved>>

Next ==
    \/ \E c \in Callers, f \in Fns : Call(c, f)
    \/ \E c \in Callers : GetInitialized(c)
    \/ \E c \in Callers : StartInit(c)
    \/ \E c \in Callers : Resolve(c)
    \/ \E c \in Callers : Compute(c)
    \/ \E c \in Callers : ParseVersionFailed(c)
    \/ \E c \in Callers : Unsupported(c)
    \/ \E c \in Callers : Invoke(c)

Spec == Init /\ [][Next]_vars

\* ------------------------------------------------- two wrapped functions
TwoNames == {"take_snapshot", "restore_snapshot"}

TwoDecls ==
    [valid : { <<">=6.0.174">>, <<">>6">> },
     invalid : { <<>>, <<"=6.0.175">> },
     output : { [kind |-> "Default", segments |-> <<>>] }]

InitTwo ==
    /\ hostVersion \in VersionStrings
    /\ decl \in [TwoNames -> TwoDecls]
    /\ enabled = [f \in TwoNames |-> "Uninitialized"]
    /\ running = [f \in TwoNames |-> {}]
    /\ pc = [c \in Callers |-> "idle"]
    /\ fn = [c \in Callers |-> "none"]
    /\ version = [c \in Callers |-> "none"]
    /\ observed = [c \in Callers |-> "none"]
    /\ result = [c \in Callers |-> NoResult]
    /\ resolver_calls = [f \in TwoNames |-> [warmup |-> 0, error |-> 0]]
    /\ computations = [f \in TwoNames |-> 0]
    /\ cell_writes = [f \in TwoNames |-> 0]
    /\ impl_calls = [c \in Callers |-> 0]
    /\ returned = [c \in Callers |-> NoResult]
    /\ resolved = [c \in Callers |-> "none"]
    /\ parsed = NoTrace
    /\ item = NoEmit
    /\ emitted = NoEmit
    /\ scope = {}
    /\ UtilsIdle

SpecTwo == InitTwo /\ [][Next]_vars

\* A step of caller c inside the wrapper it has entered.
Step(c) ==
    \/ GetInitialized(c)
    \/ StartInit(c)
    \/ Resolve(c)
    \/ Compute(c)
    \/ ParseVersionFailed(c)
    \/ Unsupported(c)
    \/ Invoke(c)

\* Every thread that is inside a wrapper and can take a step is scheduled;
\* the resolver and the implementation terminate.
FairSpecTwo == InitTwo /\ [][Next]_vars /\ \A c \in Callers : WF_vars(Step(c))

\* ------------------------------------------- the closure body on its own
\* The init closure of f runs on the resolved version string: the literals
\* it hands to Requirement::new, and what it ends with.
Evaluate(f) ==
    /\ parsed = NoTrace
    /\ parsed' = [fn |-> f,
                  trace |-> GateTrace(decl[f], hostVersion),
                  value |-> GateCompute(decl[f], hostVersion)]
    /\ UNCHANGED <<gvars, uvars, hostVersion, decl, enabled, running, pc, fn, version,
                   observed, result, resolver_calls, computations, cell_writes,
                   impl_calls, returned, resolved>>

NextGate == \E f \in Fns : Evaluate(f)

SpecGate == Init /\ [][NextGate]_vars

\* ------------------------------------------------- expansion as a process
\* The state of the wrappers, which no expansion touches.
wvars == <<hostVersion, decl, enabled, running, pc, fn, version, observed,
           result, resolver_calls, computations, cell_writes, impl_calls,
           returned, resolved, parsed>>

\* The compiler applies the attribute to one more function of the module:
\* a function name is declared once in a module.
Expand(it) ==
    /\ Cardinality({ n.owner : n \in scope }) < MaxScope
    /\ it.ident \notin { n.owner : n \in scope }
    /\ item' = it
    /\ emitted' = VersionedApiImpl(it)
    /\ scope' = scope \cup Names(it, VersionedApiImpl(it))
    /\ UNCHANGED <<wvars, uvars>>

\* Another module is compiled.
NewModule ==
    /\ scope # {}
    /\ scope' = {}
    /\ UNCHANGED <<item, emitted, wvars, uvars>>

\* No wrapper has been called and nothing has been expanded.
MacroIdle ==
    /\ hostVersion = "6.0.175"
    /\ decl = [f \in WrappedNames |->
                 [valid |-> <<>>, invalid |-> <<>>,
                  output |-> [kind |-> "Default", segments |-> <<>>]]]
    /\ enabled = [f \in WrappedNames |-> "Uninitialized"]
    /\ running = [f \in WrappedNames |-> {}]
    /\ pc = [c \in Callers |-> "idle"]
    /\ fn = [c \in Callers |-> "none"]
    /\ version = [c \in Callers |-> "none"]
    /\ observed = [c \in Callers |-> "none"]
    /\ result = [c \in Callers |-> NoResult]
    /\ resolver_calls = [f \in WrappedNames |-> [warmup |-> 0, error |-> 0]]
    /\ computations = [f \in WrappedNames |-> 0]
    /\ cell_writes = [f \in WrappedNames |-> 0]
    /\ impl_calls = [c \in Callers |-> 0]
    /\ returned = [c \in Callers |-> NoResult]
    /\ resolved = [c \in Callers |-> "none"]
    /\ parsed = NoTrace
    /\ item = NoEmit
    /\ emitted = NoEmit
    /\ scope = {}

InitGen == MacroIdle /\ UtilsIdle

NextGen ==
    \/ \E it \in Items : Expand(it)
    \/ NewModule

SpecGen == InitGen /\ [][NextGen]_vars


\* ------------------------------------------------------------ strings
\* Strings are sequences of characters.
\* str::starts_with
StartsWith(s, p) == Len(p) <= Len(s) /\ SubSeq(s, 1, Len(p)) = p

\* str::ends_with
EndsWith(s, p) == Len(p) <= Len(s) /\ SubSeq(s, Len(s) - Len(p) + 1, Len(s)) = p

\* str::contains
Contains(s, p) ==
    \E i \in 1..(Len(s) - Len(p) + 1) : SubSeq(s, i, i + Len(p) - 1) = p

\* str::strip_prefix
StripPrefix(s, p) ==
    IF StartsWith(s, p)
    THEN [some |-> TRUE, rest |-> SubSeq(s, Len(p) + 1, Len(s))]
    ELSE None

\* str::split(ch): the pieces between the separators, empty ones included.
RECURSIVE SplitFrom(_, _, _, _)
SplitFrom(s, ch, i, piece) ==
    IF i > Len(s) THEN <<piece>>
    ELSE IF s[i] = ch THEN <<piece>> \o SplitFrom(s, ch, i + 1, <<>>)
    ELSE SplitFrom(s, ch, i + 1, Append(piece, s[i]))

Split(s, ch) == SplitFrom(s, ch, 1, <<>>)

Digits == {"0", "1", "2", "3", "4", "5", "6", "7", "8", "9"}

DigitValue(ch) ==
    CASE ch = "0" -> 0 [] ch = "1" -> 1 [] ch = "2" -> 2 [] ch = "3" -> 3
      [] ch = "4" -> 4 [] ch = "5" -> 5 [] ch = "6" -> 6 [] ch = "7" -> 7
      [] ch = "8" -> 8 [] ch = "9" -> 9

\* A u32 is kept as its decimal numeral without leading zeros, which is
\* also what formatting it with {} writes.
RECURSIVE Canonical(_)
Canonical(ds) ==
    IF Len(ds) > 1 /\ ds[1] = "0" THEN Canonical(Tail(ds)) ELSE ds

\* u32::MAX
U32MaxNumeral == <<"4", "2", "9", "4", "9", "6", "7", "2", "9", "5">>

\* The numeral a is greater than the numeral b of the same length.
NumeralGreater(a, b) ==
    \E i \in 1..Len(a) :
        /\ DigitValue(a[i]) > DigitValue(b[i])
        /\ \A j \in 1..(i - 1) : a[j] = b[j]

\* The accumulation of the digits overflows a u32.
ExceedsU32(numeral) ==
    \/ Len(numeral) > Len(U32MaxNumeral)
    \/ Len(numeral) = Len(U32MaxNumeral) /\ NumeralGreater(numeral, U32MaxNumeral)

\* Mutant: a sign in front of the digits is an invalid digit.
ParseU32_NoSign(s) ==
    IF Len(s) = 0 THEN [ok |-> FALSE, v |-> <<>>, err |-> "Empty"]
    ELSE IF \E i \in 1..Len(s) : s[i] \notin Digits
         THEN [ok |-> FALSE, v |-> <<>>, err |-> "InvalidDigit"]
         ELSE IF ExceedsU32(Canonical(s))
              THEN [ok |-> FALSE, v |-> <<>>, err |-> "PosOverflow"]
              ELSE [ok |-> TRUE, v |-> Canonical(s), err |-> ""]

\* s.parse::<u32>(): an optional "+", then at least one digit, the value
\* within u32.
ParseU32(s) ==
    IF Len(s) = 0 THEN [ok |-> FALSE, v |-> <<>>, err |-> "Empty"]
    ELSE LET digits == IF s[1] = "+" THEN Tail(s) ELSE s
         IN  IF Len(digits) = 0 \/ \E i \in 1..Len(digits) : digits[i] \notin Digits
             THEN [ok |-> FALSE, v |-> <<>>, err |-> "InvalidDigit"]
             ELSE IF ExceedsU32(Canonical(digits))
                  THEN [ok |-> FALSE, v |-> <<>>, err |-> "PosOverflow"]
                  ELSE [ok |-> TRUE, v |-> Canonical(digits), err |-> ""]

\* ------------------------------------------------------- PythonVersion
Python == <<"p", "y", "t", "h", "o", "n">>

Zero == <<"0">>

\* PythonVersion::new
PythonVersionNew(major, minor, patch) ==
    [major |-> major, minor |-> minor, patch |-> patch]

NoVersion == [major |-> <<>>, minor |-> <<>>, patch |-> <<>>]

\* Path::file_name followed by OsStr::to_str.
FileName(path) ==
    CASE path.kind = "normal" -> [ok |-> TRUE, name |-> path.name, err |-> ""]
      [] path.kind = "dotdot" ->
            [ok |-> FALSE, name |-> <<>>,
             err |-> "Failed to get include directory filename"]
      [] path.kind = "non_utf8" ->
            [ok |-> FALSE, name |-> <<>>,
             err |-> "Failed to convert include directory name to string"]

\* The components of version_str parsed in order; the first failure ends
\* the collection.
RECURSIVE CollectU32(_, _)
CollectU32(pieces, i) ==
    IF i > Len(pieces) THEN [ok |-> TRUE, vs |-> <<>>]
    ELSE LET r == ParseU32(pieces[i])
         IN  IF ~r.ok THEN [ok |-> FALSE, vs |-> <<>>]
             ELSE LET more == CollectU32(pieces, i + 1)
                  IN  IF ~more.ok THEN more
                      ELSE [ok |-> TRUE, vs |-> <<r.v>> \o more.vs]

ParseFailed(message) == [ok |-> FALSE, version |-> NoVersion, err |-> message]

\* Mutant: a name with two components is not accepted.
ParseFromIncludeDir_ThreeOnly(path) ==
    LET dir_name == FileName(path)
    IN  IF ~dir_name.ok THEN ParseFailed(dir_name.err)
        ELSE LET version_str == StripPrefix(dir_name.name, Python)
             IN  IF ~version_str.some
                 THEN ParseFailed("Include directory name does not start with 'python'")
                 ELSE LET components == CollectU32(Split(version_str.rest, "."), 1)
                      IN  IF ~components.ok
                          THEN ParseFailed("Failed to parse version component")
                          ELSE IF Len(components.vs) = 3
                          THEN [ok |-> TRUE, err |-> "",
                                version |-> PythonVersionNew(components.vs[1],
                                                components.vs[2], components.vs[3])]
                          ELSE ParseFailed("Invalid Python version format")

\* PythonVersion::parse_from_include_dir
ParseFromIncludeDir(path) ==
    LET dir_name == FileName(path)
    IN  IF ~dir_name.ok THEN ParseFailed(dir_name.err)
        ELSE LET version_str == StripPrefix(dir_name.name, Python)
             IN  IF ~version_str.some
                 THEN ParseFailed("Include directory name does not start with 'python'")
                 ELSE LET components == CollectU32(Split(version_str.rest, "."), 1)
                      IN  IF ~components.ok
                          THEN ParseFailed("Failed to parse version component")
                          ELSE IF Len(components.vs) = 2
                          THEN [ok |-> TRUE, err |-> "",
                                version |-> PythonVersionNew(components.vs[1],
                                                components.vs[2], Zero)]
                          ELSE IF Len(components.vs) = 3
                          THEN [ok |-> TRUE, err |-> "",
                                version |-> PythonVersionNew(components.vs[1],
                                                components.vs[2], components.vs[3])]
                          ELSE ParseFailed("Invalid Python version format")

\* impl Display for PythonVersion
Display(v) ==
    IF v.patch = Zero
    THEN v.major \o <<".">> \o v.minor
    ELSE v.major \o <<".">> \o v.minor \o <<".">> \o v.patch

\* The pieces directory names are put together from.
MaxComponents == 4

Pieces ==
    { <<>>, <<"3">>, <<"0", "9">>, <<"+", "3">>, <<"x">>, <<"-", "1">>,
      <<"4", "2", "9", "4", "9", "6", "7", "2", "9", "6">> }

Prefixes == { Python, <<"P", "y", "t", "h", "o", "n">>, <<>> }

\* The pieces joined by dots.
RECURSIVE Join(_, _)
Join(pieces, i) ==
    IF i > Len(pieces) THEN <<>>
    ELSE IF i = Len(pieces) THEN pieces[i]
    ELSE pieces[i] \o <<".">> \o Join(pieces, i + 1)

DirNames ==
    { pre \o Join(ps, 1) :
        pre \in Prefixes,
        ps \in UNION { [1..n -> Pieces] : n \in 1..MaxComponents } }

IncludeDirs ==
    { [kind |-> "normal", name |-> n] : n \in DirNames }
        \cup { [kind |-> "dotdot", name |-> <<>>],
               [kind |-> "non_utf8", name |-> <<>>] }

U32Values ==
    { Zero, <<"3">>, <<"9">>, <<"1", "0">>, U32MaxNumeral }

PythonVersions == [major : U32Values, minor : U32Values, patch : U32Values]

NotYet == [ok |-> FALSE, version |-> NoVersion, err |-> "not called"]

\* parse_from_include_dir applied to the given path.
ParseIncludeDir ==
    /\ include_dir # NoInput
    /\ include_dir.result = NotYet
    /\ include_dir' = [include_dir EXCEPT !.result = ParseFromIncludeDir(include_dir.path)]
    /\ UNCHANGED <<wvars, gvars, py_version, lib_dir, lib_found, discovery, build>>

\* version.to_string()
ToString ==
    /\ py_version # NoInput
    /\ ~py_version.shown.some
    /\ py_version' = [py_version EXCEPT
                         !.shown = [some |-> TRUE, s |-> Display(py_version.v)]]
    /\ UNCHANGED <<wvars, gvars, include_dir, lib_dir, lib_found, discovery, build>>

\* parse_from_include_dir applied to the directory "python" + the string.
ParseShown ==
    /\ py_version # NoInput
    /\ py_version.shown.some
    /\ py_version.reparsed = NotYet
    /\ py_version' = [py_version EXCEPT
                         !.reparsed = ParseFromIncludeDir(
                             [kind |-> "normal", name |-> Python \o py_version.shown.s])]
    /\ UNCHANGED <<wvars, gvars, include_dir, lib_dir, lib_found, discovery, build>>

InitVersion ==
    /\ MacroIdle
    /\ lib_dir = NoInput
    /\ lib_found = NoInput
    /\ discovery = NoInput
    /\ build = NoInput
    /\ \/ /\ include_dir \in [kind : {"dir"}, path : IncludeDirs, result : {NotYet}]
          /\ py_version = NoInput
       \/ /\ include_dir = NoInput
          /\ py_version \in [kind : {"version"}, v : PythonVersions,
                             shown : {[some |-> FALSE, s |-> <<>>]},
                             reparsed : {NotYet}]

NextVersion ==
    \/ ParseIncludeDir
    \/ ToString
    \/ ParseShown

SpecVersion == InitVersion /\ [][NextVersion]_vars

\* ------------------------------------------------- library discovery
So == <<".", "s", "o">>

Dll == <<".", "d", "l", "l">>

LibPython == <<"l", "i", "b">> \o Python

\* UNIX_CONFIG and WINDOWS_CONFIG: the fields the library search reads.
UnixConfig ==
    [lib_prefix |-> LibPython, lib_extension |-> So,
     generic_lib_name |-> LibPython \o <<"3">> \o So]

WindowsConfig ==
    [lib_prefix |-> Python \o <<"3">>, lib_extension |-> Dll,
     generic_lib_name |-> Python \o <<"3">> \o Dll]

Configs == {UnixConfig, WindowsConfig}

\* Names of libraries of Python 3.9 and of Python 3.10.
Names39 ==
    { LibPython \o <<"3", ".", "9">> \o So,
      LibPython \o <<"3", ".", "9">> \o So \o <<".", "1", ".", "0">>,
      Python \o <<"3", ".", "9">> \o Dll }

Names310 ==
    { LibPython \o <<"3", ".", "1", "0">> \o So,
      LibPython \o <<"3", ".", "1", "0">> \o So \o <<".", "1", ".", "0">>,
      Python \o <<"3", ".", "1", "0">> \o Dll }

FileNames ==
    Names39 \cup Names310
        \cup { UnixConfig.generic_lib_name, WindowsConfig.generic_lib_name,
               <<"l", "i", "b", "f", "o", "o">> \o So }

\* A path whose final component is valid UTF-8, and one whose is not.
Paths ==
    { [kind |-> "normal", name |-> n] : n \in FileNames }
        \cup { [kind |-> "non_utf8", name |-> <<>>] }

\* What read_dir yields: regular files, and directories with library names.
DirEntries ==
    { [path |-> p, is_file |-> TRUE] : p \in Paths }
        \cup { [path |-> [kind |-> "normal", name |-> n], is_file |-> FALSE] :
                 n \in { LibPython \o <<"3", ".", "9">> \o So \o <<".", "1", ".", "0">>,
                         Python \o <<"3", ".", "9">> \o Dll } }

MaxFiles == 3

\* is_python_library_name
IsPythonLibraryName(name, config) ==
    StartsWith(name, config.lib_prefix) /\ Contains(name, config.lib_extension)

\* filter_python_libraries_with_config: the list it leaves in files.
FilterPythonLibrariesWithConfig(files, config) ==
    LET not_generic(path) ==
            path.kind = "normal" /\ path.name # config.generic_lib_name
        versioned == IF Len(files) > 1
                     THEN SelectSeq(files, not_generic)
                     ELSE files
        not_plain(path) == path.kind = "normal" /\ ~EndsWith(path.name, So)
    IN  IF config.lib_extension = So /\ Len(versioned) > 1
        THEN SelectSeq(versioned, not_plain)
        ELSE versioned

\* The paths of the entries, in the order read_dir yields them.
EntryPaths(entries) == [i \in 1..Len(entries) |-> entries[i].path]

\* libpython_files before the filter: regular files with a library name.
LibpythonFiles(entries, config) ==
    LET is_library(entry) ==
            /\ entry.is_file
            /\ entry.path.kind = "normal"
            /\ IsPythonLibraryName(entry.path.name, config)
    IN  EntryPaths(SelectSeq(entries, is_library))

NoPath == [kind |-> "none", name |-> <<>>]

SearchFailed(message) == [ok |-> FALSE, file |-> NoPath, err |-> message]

\* find_libpython_in_dir_with_config
FindLibpythonInDirWithConfig(dir, config) ==
    IF ~dir.exists THEN SearchFailed("Library directory does not exist")
    ELSE IF ~dir.readable THEN SearchFailed("Failed to read library directory")
    ELSE LET libpython_files ==
                 FilterPythonLibrariesWithConfig(
                     LibpythonFiles(dir.entries, config), config)
         IN  CASE Len(libpython_files) = 0 ->
                      SearchFailed("No Python library file found")
               [] Len(libpython_files) = 1 ->
                      [ok |-> TRUE, file |-> libpython_files[1], err |-> ""]
               [] OTHER ->
                      SearchFailed("Multiple Python library files found")

NotSearched == [ok |-> FALSE, file |-> NoPath, err |-> "not called"]

\* Directories: missing, unreadable, or holding up to MaxFiles entries with
\* distinct names in any order.
LibDirs ==
    { [exists |-> FALSE, readable |-> FALSE, entries |-> <<>>],
      [exists |-> TRUE, readable |-> FALSE, entries |-> <<>>] }
        \cup { [exists |-> TRUE, readable |-> TRUE, entries |-> es] :
                 es \in { s \in UNION { [1..n -> DirEntries] : n \in 0..MaxFiles } :
                            \A i, j \in 1..Len(s) :
                                i # j => s[i].path # s[j].path } }

\* Lists of up to MaxFiles different paths, in any order.
FileLists ==
    { s \in UNION { [1..n -> Paths] : n \in 0..MaxFiles } :
        \A i, j \in 1..Len(s) : i # j => s[i] # s[j] }

\* find_libpython_in_dir_with_config applied to the directory.
FindLibpython ==
    /\ lib_dir # NoInput
    /\ lib_dir.result = NotSearched
    /\ lib_dir' = [lib_dir EXCEPT
                      !.result = FindLibpythonInDirWithConfig(lib_dir.dir, lib_dir.config)]
    /\ UNCHANGED <<wvars, gvars, include_dir, py_version, lib_found, discovery, build>>

\* filter_python_libraries_with_config applied to the list.
FilterLibraries ==
    /\ lib_found # NoInput
    /\ ~lib_found.filtered
    /\ lib_found' = [lib_found EXCEPT
                        !.files = FilterPythonLibrariesWithConfig(
                                      lib_found.given, lib_found.config),
                        !.filtered = TRUE]
    /\ UNCHANGED <<wvars, gvars, include_dir, py_version, lib_dir, discovery, build>>

InitLib ==
    /\ MacroIdle
    /\ include_dir = NoInput
    /\ py_version = NoInput
    /\ discovery = NoInput
    /\ build = NoInput
    /\ \/ /\ lib_dir \in [kind : {"search"}, dir : LibDirs, config : Configs,
                          result : {NotSearched}]
          /\ lib_found = NoInput
       \/ /\ lib_dir = NoInput
          /\ \E given \in FileLists, config \in Configs :
                 lib_found = [kind |-> "filter", given |-> given, config |-> config,
                              files |-> given, filtered |-> FALSE]

NextLib ==
    \/ FindLibpython
    \/ FilterLibraries

SpecLib == InitLib /\ [][NextLib]_vars

\* ------------------------------------------------ environment discovery
\* The steps of discover_from_base_path, in the order it takes them.
Steps ==
    <<"find_mini_python", "find_python_include", "find_python_library",
      "parse_from_include_dir", "validate">>

StepNames == { Steps[i] : i \in 1..Len(Steps) }

\* An error is the chain of its messages, outermost first.
StepError(step) ==
    CASE step = "find_mini_python" -> <<"Mini-python executable not found">>
      [] step = "find_python_include" -> <<"No python* subdirectory found">>
      [] step = "find_python_library" -> <<"No Python library file found">>
      [] step = "parse_from_include_dir" -> <<"Failed to parse version component">>
      [] step = "validate" -> <<"Python library path is not a file">>

\* anyhow::Error::context
Context(err, message) == <<message>> \o err

NoEnv == [base_path |-> "none", package_source |-> "none"]

\* PythonEnvironment::new, for the files found under base_path.
PythonEnvironmentNew(base_path, package_source) ==
    [base_path |-> base_path, package_source |-> package_source]

\* PythonEnvironment::with_source
WithSource(env, source) == [env EXCEPT !.package_source = source]

Failed(err) == [ok |-> FALSE, env |-> NoEnv, err |-> err]

Found(env) == [ok |-> TRUE, env |-> env, err |-> <<>>]

\* discover_from_base_path: the error of the first step that fails at the
\* site, or the environment built from what the steps found.
DiscoverFromBasePath(base_path, failing) ==
    IF \E i \in 1..Len(Steps) : Steps[i] \in failing
    THEN LET first == CHOOSE i \in 1..Len(Steps) :
                          /\ Steps[i] \in failing
                          /\ \A j \in 1..(i - 1) : Steps[j] \notin failing
         IN  Failed(StepError(Steps[first]))
    ELSE Found(PythonEnvironmentNew(base_path, "Traditional"))

\* try_traditional_paths
TryTraditionalPaths(world) ==
    DiscoverFromBasePath("simics_base/host", world.traditional)

IspmStates ==
    {"query_failed", "none_installed", "no_python_package", "no_paths", "installed"}

\* try_dynamic_python_package_discovery
TryDynamicPythonPackageDiscovery(world) ==
    IF ~world.base_has_version
    THEN Failed(<<"Unable to determine Simics major version from SIMICS base path">>)
    ELSE CASE world.ispm = "query_failed" ->
                  Failed(<<"Failed to query ISPM for installed packages">>)
           [] world.ispm = "none_installed" ->
                  Failed(<<"No installed packages found">>)
           [] world.ispm = "no_python_package" ->
                  Failed(<<"No Python packages found for Simics major version">>)
           [] world.ispm = "no_paths" ->
                  Failed(<<"No installation paths found for Python package">>)
           [] world.ispm = "installed" ->
                  DiscoverFromBasePath("package/host", world.package)

\* What the two strategies look at: the files under <base>/<host dir>, the
\* name of the base directory, the ISPM package list, the package's files.
Worlds ==
    [traditional : SUBSET StepNames, base_has_version : BOOLEAN,
     ispm : IspmStates, package : SUBSET StepNames]

\* The error returned when both strategies failed.
NotFound(traditional_err, dynamic_err) ==
    <<"Python environment not found in traditional location or through dynamic package discovery",
      "Traditional error: ">> \o traditional_err
        \o <<"Dynamic error: ">> \o dynamic_err

NotReturned == [ok |-> FALSE, env |-> NoEnv, err |-> <<"not returned">>]

\* Mutant: a result of the dynamic strategy keeps the tag it was built with.
TryDynamic_KeepSource ==
    /\ discovery # NoInput
    /\ discovery.pc = "dynamic"
    /\ LET r == TryDynamicPythonPackageDiscovery(discovery.world)
       IN  discovery' =
               [discovery EXCEPT
                   !.attempts = Append(@, "dynamic"),
                   !.pc = "returned",
                   !.result =
                       IF r.ok THEN Found(r.env)
                       ELSE Failed(NotFound(discovery.traditional_err,
                                Context(r.err, "Dynamic discovery failed")))]
    /\ UNCHANGED <<wvars, gvars, include_dir, py_version, lib_dir, lib_found, build>>

\* discover_python_environment_from_base up to the end of the first match:
\* the traditional strategy returns its result or leaves its error.
TryTraditional ==
    /\ discovery # NoInput
    /\ discovery.pc = "start"
    /\ LET r == TryTraditionalPaths(discovery.world)
       IN  discovery' =
               [discovery EXCEPT
                   !.attempts = Append(@, "traditional"),
                   !.pc = IF r.ok THEN "returned" ELSE "dynamic",
                   !.traditional_err =
                       IF r.ok THEN <<>>
                       ELSE Context(r.err, "Traditional discovery failed"),
                   !.result =
                       IF r.ok THEN Found(WithSource(r.env, "Traditional"))
                       ELSE NotReturned]
    /\ UNCHANGED <<wvars, gvars, include_dir, py_version, lib_dir, lib_found, build>>

\* The rest of discover_python_environment_from_base: the dynamic strategy
\* returns its result, or the call returns the error made of both errors.
TryDynamic ==
    /\ discovery # NoInput
    /\ discovery.pc = "dynamic"
    /\ LET r == TryDynamicPythonPackageDiscovery(discovery.world)
       IN  discovery' =
               [discovery EXCEPT
                   !.attempts = Append(@, "dynamic"),
                   !.pc = "returned",
                   !.result =
                       IF r.ok THEN Found(WithSource(r.env, "SeparatePackage"))
                       ELSE Failed(NotFound(discovery.traditional_err,
                                Context(r.err, "Dynamic discovery failed")))]
    /\ UNCHANGED <<wvars, gvars, include_dir, py_version, lib_dir, lib_found, build>>

InitDiscover ==
    /\ MacroIdle
    /\ include_dir = NoInput
    /\ py_version = NoInput
    /\ lib_dir = NoInput
    /\ lib_found = NoInput
    /\ build = NoInput
    /\ \E world \in Worlds :
           discovery = [kind |-> "discover", world |-> world, pc |-> "start",
                        attempts |-> <<>>, traditional_err |-> <<>>,
                        result |-> NotReturned]

NextDiscover ==
    \/ TryTraditional
    \/ TryDynamic

SpecDiscover == InitDiscover /\ [][NextDiscover]_vars

\* ---------------------------------------------- conditional compilation
\* A simics_version value is the sequence of its numbers: "6.0.173" is
\* <<6, 0, 173>>, "6" is <<6>>.
FirstPatch == 163

MaxPatch == 181

\* cfg predicates.
Is(v) == [op |-> "is", v |-> v]

Not(c) == [op |-> "not", arg |-> c]

Any(cs) == [op |-> "any", args |-> cs]

All(cs) == [op |-> "all", args |-> cs]

\* simics_version = "6.0.a", ..., simics_version = "6.0.b"
Patches(a, b) == [i \in 1..(b - a + 1) |-> Is(<<6, 0, a + i - 1>>)]

\* Whether a cfg predicate holds in a configuration, a set of
\* simics_version values.
RECURSIVE CfgEval(_, _)
CfgEval(c, config) ==
    CASE c.op = "is" -> c.v \in config
      [] c.op = "not" -> ~CfgEval(c.arg, config)
      [] c.op = "any" -> \E i \in 1..Len(c.args) : CfgEval(c.args[i], config)
      [] c.op = "all" -> \A i \in 1..Len(c.args) : CfgEval(c.args[i], config)

\* The gate on `pub mod snapshots` and `pub use snapshots::*`.
ModuleCfg == Not(Any(Patches(163, 172)))

\* The items of snapshots.rs: name, line of the definition, cfg predicate and
\* whether the definition mentions SnapshotError.
SnapshotItems ==
    << [name |-> "SnapshotError", line |-> 29, uses_error |-> FALSE,
        cfg |-> Not(Any(Patches(163, 179)))],
       [name |-> "save_snapshot", line |-> 36, uses_error |-> FALSE,
        cfg |-> Is(<<6, 0, 173>>)],
       [name |-> "save_snapshot", line |-> 55, uses_error |-> FALSE,
        cfg |-> Any(Patches(174, 179))],
       [name |-> "save_snapshot", line |-> 86, uses_error |-> TRUE,
        cfg |-> All(<<Not(Any(Patches(163, 179))), Is(<<6>>)>>)],
       [name |-> "take_snapshot", line |-> 117, uses_error |-> TRUE,
        cfg |-> All(<<Not(Any(Patches(163, 179))), Is(<<6>>)>>)],
       [name |-> "restore_snapshot", line |-> 128, uses_error |-> FALSE,
        cfg |-> Is(<<6, 0, 173>>)],
       [name |-> "restore_snapshot", line |-> 154, uses_error |-> TRUE,
        cfg |-> All(<<Not(Any(Patches(163, 173))), Is(<<6>>)>>)],
       [name |-> "delete_snapshot", line |-> 165, uses_error |-> FALSE,
        cfg |-> Is(<<6, 0, 173>>)],
       [name |-> "delete_snapshot", line |-> 188, uses_error |-> TRUE,
        cfg |-> All(<<Not(Any(Patches(163, 173))), Is(<<6>>)>>)],
       [name |-> "snapshot_size_used", line |-> 213, uses_error |-> FALSE,
        cfg |-> All(<<Not(Any(Patches(163, 172))), Is(<<6>>)>>)],
       [name |-> "list_snapshots", line |-> 235, uses_error |-> FALSE,
        cfg |-> All(<<Not(Any(Patches(163, 172))), Is(<<6>>)>>)],
       [name |-> "snapshots_ignore_class", line |-> 254, uses_error |-> FALSE,
        cfg |-> Not(Any(Patches(163, 172)))],
       [name |-> "save_snapshot", line |-> 268, uses_error |-> TRUE,
        cfg |-> Is(<<7>>)],
       [name |-> "take_snapshot", line |-> 278, uses_error |-> TRUE,
        cfg |-> Is(<<7>>)],
       [name |-> "restore_snapshot", line |-> 288, uses_error |-> TRUE,
        cfg |-> Is(<<7>>)],
       [name |-> "delete_snapshot", line |-> 298, uses_error |-> TRUE,
        cfg |-> Is(<<7>>)],
       [name |-> "list_snapshots", line |-> 308, uses_error |-> FALSE,
        cfg |-> Is(<<7>>)] >>

\* The configurations of a build: a 6.0.x patch together with major 6, or
\* major 7.
BuildConfigs ==
    { {<<6>>, <<6, 0, p>>} : p \in FirstPatch..MaxPatch } \cup { {<<7>>} }

\* The items kept so far that define the name.
Definitions(active, name) ==
    { i \in active : SnapshotItems[i].name = name }

\* The errors of name resolution over the kept items: a name defined more
\* than once, a use of SnapshotError without its definition.
BuildErrors(active) ==
    { [error |-> "defined multiple times", line |-> SnapshotItems[i].line] :
        i \in { k \in active :
                  \E j \in active : j < k /\ SnapshotItems[j].name = SnapshotItems[k].name } }
      \cup
    { [error |-> "cannot find type SnapshotError", line |-> SnapshotItems[i].line] :
        i \in { k \in active :
                  /\ SnapshotItems[k].uses_error
                  /\ Definitions(active, "SnapshotError") = {} } }

\* The module declaration is configured: without it no item is looked at.
ConfigureModule ==
    /\ build # NoInput
    /\ build.pc = "mod"
    /\ build' = [build EXCEPT
                    !.pc = IF CfgEval(ModuleCfg, build.config) THEN "items" ELSE "done"]
    /\ UNCHANGED <<wvars, gvars, include_dir, py_version, lib_dir, lib_found, discovery>>

\* The next item is kept if its cfg predicate holds and dropped otherwise.
ConfigureItem ==
    /\ build # NoInput
    /\ build.pc = "items"
    /\ build.next <= Len(SnapshotItems)
    /\ build' = [build EXCEPT
                    !.next = @ + 1,
                    !.active = IF CfgEval(SnapshotItems[build.next].cfg, build.config)
                               THEN @ \cup {build.next}
                               ELSE @]
    /\ UNCHANGED <<wvars, gvars, include_dir, py_version, lib_dir, lib_found, discovery>>

\* Names are resolved over the kept items.
ResolveNames ==
    /\ build # NoInput
    /\ build.pc = "items"
    /\ build.next > Len(SnapshotItems)
    /\ build' = [build EXCEPT !.pc = "done", !.errors = BuildErrors(build.active)]
    /\ UNCHANGED <<wvars, gvars, include_dir, py_version, lib_dir, lib_found, discovery>>

InitCfg ==
    /\ MacroIdle
    /\ include_dir = NoInput
    /\ py_version = NoInput
    /\ lib_dir = NoInput
    /\ lib_found = NoInput
    /\ discovery = NoInput
    /\ \E config \in BuildConfigs :
           build = [kind |-> "build", config |-> config, pc |-> "mod",
                    next |-> 1, active |-> {}, errors |-> {}]

NextCfg ==
    \/ ConfigureModule
    \/ ConfigureItem
    \/ ResolveNames

SpecCfg == InitCfg /\ [][NextCfg]_vars

\* ------------------------------------------------------------------- claims
\* Some requirement of the list parses and matches the version string s.
SomeMatches(list, s) ==
    \E i \in 1..Len(list) :
        /\ VersioningNew(s).ok
        /\ RequirementNew(list[i]).ok
        /\ Matches(RequirementNew(list[i]), VersioningNew(s).v)

\* C1: the boolean a function's gate cell holds equals (some requirement of
\* valid matches the host version) and (no requirement of invalid matches
\* it); a version matching both leaves the gate closed.
C1_GateIsValidAndNotInvalid ==
    \A f \in Fns :
        enabled[f] # "Uninitialized" =>
            /\ VersioningNew(hostVersion).ok
            /\ (enabled[f] = "Enabled") <=>
                  (/\ SomeMatches(decl[f].valid, hostVersion)
                   /\ ~SomeMatches(decl[f].invalid, hostVersion))

C1_Witness ==
    \E f \in Fns :
        /\ enabled[f] = "Disabled"
        /\ SomeMatches(decl[f].valid, hostVersion)
        /\ SomeMatches(decl[f].invalid, hostVersion)

\* C2: versioned_<n> is invoked only by a call that observed its function's
\* gate cell holding true; a call that observed a closed gate never invokes
\* it.
C2_ImplOnlyBehindOpenGate ==
    \A c \in Callers :
        /\ (pc[c] = "invoke" \/ impl_calls[c] > 0) =>
              /\ observed[c] = "true"
              /\ enabled[fn[c]] = "Enabled"
        /\ observed[c] = "false" =>
              /\ impl_calls[c] = 0
              /\ pc[c] \in {"unsupported", "done"}
              /\ enabled[fn[c]] = "Disabled"

C2_Witness ==
    /\ \A c \in Callers : pc[c] = "done" /\ impl_calls[c] = 1
    /\ \E c \in Callers : observed[c] = "true"

\* Callers that called f and got a boolean from its gate.
Observers(f) == { c \in Callers : fn[c] = f /\ observed[c] # "none" }

\* Callers whose call of f ended in a panic.
Panicked(f) == { c \in Callers : fn[c] = f /\ pc[c] = "panicked" }

\* Every caller called f and its call has returned.
AllReturned(f) == \A c \in Callers : fn[c] = f /\ pc[c] = "done"

C4_Original ==
    \A f \in Fns :
        AllReturned(f) =>
            /\ resolver_calls[f].warmup + resolver_calls[f].error = 1
            /\ \A c1, c2 \in Callers : observed[c1] = observed[c2]

\* C4 (amended): once all N calls of a function have returned, the resolver
\* has been invoked exactly once by the gate computation, and besides that
\* once by each call that found the gate closed (none when it is open);
\* all callers observed the same boolean.
C4_ResolverOncePerWarmup ==
    \A f \in Fns :
        AllReturned(f) =>
            /\ resolver_calls[f].warmup = 1
            /\ resolver_calls[f].error =
                  IF enabled[f] = "Enabled" THEN 0 ELSE Cardinality(Callers)
            /\ \A c \in Callers : observed[c] = CellBool(enabled[f])

C4_Witness ==
    \E f \in Fns :
        /\ AllReturned(f)
        /\ enabled[f] = "Disabled"
        /\ resolver_calls[f].warmup = 1

\* C5: a gate cell that holds a boolean holds the same boolean in every
\* later state (no Enabled <-> Disabled change, no return to Uninitialized)
\* and leaves Uninitialized at most once.
C5_GateTerminal ==
    [][\A f \in Fns :
          /\ enabled[f] # "Uninitialized" => enabled'[f] = enabled[f]
          /\ enabled'[f] # enabled[f] =>
                cell_writes[f] = 0 /\ cell_writes'[f] = 1
          /\ cell_writes'[f] <= 1]_vars

C5_Witness ==
    \E f \in Fns :
        /\ enabled[f] # "Uninitialized"
        /\ AllReturned(f)

\* The UnsupportedCall failure carrying the host version and f's two lists.
IsUnsupportedCallOf(r, f) ==
    /\ r.tag = "Err"
    /\ r.val.k = "UnsupportedCall"
    /\ r.val.version = hostVersion
    /\ Len(r.val.valid) = Len(decl[f].valid)
    /\ \A i \in 1..Len(decl[f].valid) : r.val.valid[i] = decl[f].valid[i]
    /\ Len(r.val.invalid) = Len(decl[f].invalid)
    /\ \A i \in 1..Len(decl[f].invalid) : r.val.invalid[i] = decl[f].invalid[i]

\* C6: a call that found the gate closed and whose resolver invocation
\* succeeded returns UnsupportedCall with the resolved version string and
\* element-for-element, order-preserving copies of the declared lists.
C6_UnsupportedCallPayload ==
    \A c \in Callers :
        (pc[c] = "done" /\ observed[c] = "false" /\ resolved[c] = "ok") =>
            IsUnsupportedCallOf(result[c], fn[c])

C6_Witness ==
    \E c \in Callers :
        /\ pc[c] = "done" /\ observed[c] = "false" /\ resolved[c] = "ok"
        /\ Len(decl[fn[c]].valid) = 2
        /\ decl[fn[c]].valid[1] # decl[fn[c]].valid[2]
        /\ Len(decl[fn[c]].invalid) = 1
        /\ result[c].val.valid = decl[fn[c]].valid

\* C7 as stated: with an empty valid list every call returns UnsupportedCall
\* carrying the declared lists and never runs the implementation.
C7_Original ==
    \A c \in Callers :
        (pc[c] = "done" /\ Len(decl[fn[c]].valid) = 0) =>
            /\ impl_calls[c] = 0
            /\ result[c].val.k = "UnsupportedCall"

\* C7 (amended): with an empty valid list the gate is never open, for every
\* host version and every invalid list; no call runs the implementation,
\* and every call that returns returns UnsupportedCall carrying the declared
\* lists, or the resolver's error when the resolver failed while that
\* payload was built.
C7_EmptyValidNeverOpen ==
    \A f \in Fns :
        Len(decl[f].valid) = 0 =>
            /\ enabled[f] # "Enabled"
            /\ \A c \in Callers :
                  fn[c] = f =>
                     /\ impl_calls[c] = 0
                     /\ pc[c] # "invoke"
                     /\ observed[c] # "true"
                     /\ pc[c] = "done" =>
                           IF resolved[c] = "ok"
                           THEN IsUnsupportedCallOf(result[c], f)
                           ELSE result[c] = PropagatedError

C7_Witness ==
    \E f \in Fns :
        /\ decl[f].valid = <<>> /\ decl[f].invalid = <<>>
        /\ AllReturned(f)
        /\ \A c \in Callers : IsUnsupportedCallOf(result[c], f)

\* The declared return type is a path type whose last segment is Result.
DeclaresResult(output) ==
    /\ output.kind = "Path"
    /\ Len(output.segments) > 0
    /\ output.segments[Len(output.segments)] = "Result"

\* C8: for a function whose declared return type is absent or does not end
\* in Result, a call that found the gate open invokes the implementation
\* exactly once and returns Ok of the value it returned (unit when no return
\* type was declared); the wrapper's type is crate::error::Result of it.
C8_PlainValueWrappedInOk ==
    \A c \in Callers :
        (observed[c] = "true" /\ ~DeclaresResult(decl[fn[c]].output)) =>
            /\ pc[c] \in {"invoke", "done"}
            /\ pc[c] = "invoke" => impl_calls[c] = 0
            /\ pc[c] = "done" =>
                  /\ impl_calls[c] = 1
                  /\ result[c] = [tag |-> "Ok", val |-> returned[c]]
                  /\ decl[fn[c]].output.kind = "Default" => returned[c].k = "unit"
            /\ WrapperOutput(decl[fn[c]].output).segments
                  = <<"crate", "error", "Result">>

C8_Witness ==
    \E c \in Callers :
        /\ pc[c] = "done" /\ observed[c] = "true"
        /\ decl[fn[c]].output.segments = <<"Result", "Item">>
        /\ result[c] = [tag |-> "Ok", val |-> [k |-> "value", v |-> "v"]]

\* C9: for a function whose declared return type ends in Result the wrapper
\* keeps that type and a call that found the gate open returns exactly the
\* value the implementation produced: no second Ok around a success, and a
\* failure e returned as e.
C9_ResultPassedThrough ==
    \A c \in Callers :
        (observed[c] = "true" /\ DeclaresResult(decl[fn[c]].output)) =>
            /\ WrapperOutput(decl[fn[c]].output) = decl[fn[c]].output
            /\ pc[c] = "done" =>
                  /\ impl_calls[c] = 1
                  /\ result[c] = returned[c]
                  /\ result[c].tag \in {"Ok", "Err"}
                  /\ result[c].val.k \in {"value", "error"}

C9_Witness ==
    \E c \in Callers :
        /\ pc[c] = "done" /\ observed[c] = "true"
        /\ returned[c] = [tag |-> "Err", val |-> [k |-> "error", v |-> "e"]]
        /\ result[c] = returned[c]

\* C10: when the resolver fails while a call that found the gate closed is
\* building the error payload, the call returns the resolver's error: it
\* does not panic, does not return UnsupportedCall, does not invoke the
\* implementation and leaves the gate cell unchanged.
C10_ResolverErrorPropagated ==
    [][\A c \in Callers :
          (pc[c] = "unsupported" /\ pc'[c] # "unsupported" /\ resolved'[c] = "err") =>
              /\ pc'[c] = "done"
              /\ result'[c] = PropagatedError
              /\ impl_calls'[c] = 0
              /\ enabled' = enabled
              /\ enabled[fn[c]] = "Disabled"]_vars

C10_Witness ==
    \E f \in Fns :
        /\ AllReturned(f)
        /\ computations[f] = 1
        /\ \A c \in Callers :
              /\ observed[c] = "false" /\ resolved[c] = "err"
              /\ result[c] = PropagatedError

\* Some literal of the list does not parse as a requirement.
HasMalformed(list) == \E i \in 1..Len(list) : ~RequirementNew(list[i]).ok

\* A literal of the list does not parse and no literal before it matches the
\* version string s: the evaluation of the list gets to it.
ReachedMalformed(list, s) ==
    \E i \in 1..Len(list) :
        /\ ~RequirementNew(list[i]).ok
        /\ \A j \in 1..(i - 1) :
              /\ RequirementNew(list[j]).ok
              /\ ~Matches(RequirementNew(list[j]), VersioningNew(s).v)

\* No call of f got past the warm-up: no value, no failure value, no
\* invocation of the implementation, and the cell is still empty.
NoCallPastWarmup(f) ==
    /\ enabled[f] = "Uninitialized"
    /\ \A c \in Callers :
          fn[c] = f =>
              /\ pc[c] \in {"gate", "resolve", "compute", "panicked"}
              /\ observed[c] = "none"
              /\ result[c] = NoResult
              /\ returned[c] = NoResult
              /\ impl_calls[c] = 0

\* C11 as stated: if any literal of a function's valid or invalid list is
\* malformed, or the resolved version string does not parse, no call of the
\* function gets past the warm-up.
C11_Original ==
    \A f \in Fns :
        (\/ ~VersioningNew(hostVersion).ok
         \/ HasMalformed(decl[f].valid)
         \/ HasMalformed(decl[f].invalid))
            => NoCallPastWarmup(f)

\* C11 (amended): if the resolved version string does not parse, or the
\* evaluation of the valid or of the invalid list gets to a malformed
\* literal (none of the literals before it in its list matches the version),
\* every call of the function aborts during the warm-up: the caller receives
\* neither a success value nor a failure value and the implementation is not
\* invoked.
C11_ReachedMalformedAborts ==
    \A f \in Fns :
        (\/ ~VersioningNew(hostVersion).ok
         \/ ReachedMalformed(decl[f].valid, hostVersion)
         \/ ReachedMalformed(decl[f].invalid, hostVersion))
            => NoCallPastWarmup(f)

C11_Witness ==
    \E c \in Callers :
        /\ pc[c] = "panicked"
        /\ computations[fn[c]] = 1
        /\ VersioningNew(hostVersion).ok
        /\ SomeMatches(decl[fn[c]].valid, hostVersion)
        /\ ReachedMalformed(decl[fn[c]].invalid, hostVersion)

\* C15 as stated: on every path through a function's warm-up, the parse
\* failure included, the resolver is invoked at most once per run of the
\* gate computation.
C15_Original ==
    \A f \in Fns : resolver_calls[f].warmup <= computations[f]

\* C15 (amended): a run of a function's gate computation invokes the resolver
\* once, and a second time when the resolved string does not parse as a
\* version; every other invocation attributable to the function is made by
\* a call that found the gate closed, once per such call.
C15_ResolverOnceOrTwicePerWarmup ==
    \A f \in Fns :
        /\ resolver_calls[f].warmup <=
              (IF VersioningNew(hostVersion).ok THEN 1 ELSE 2) * computations[f]
        /\ resolver_calls[f].error =
              Cardinality({ c \in Callers : fn[c] = f /\ resolved[c] # "none" })
        /\ \A c \in Callers :
              resolved[c] # "none" =>
                  observed[c] = "false" /\ enabled[fn[c]] = "Disabled"

C15_Witness ==
    \E f \in Fns :
        /\ ~VersioningNew(hostVersion).ok
        /\ computations[f] = 1
        /\ resolver_calls[f].warmup = 2
        /\ \E c \in Callers : fn[c] = f /\ pc[c] = "panicked"

\* Some call of f ended in a panic of the warm-up.
WarmupFailed(f) == \E c \in Callers : fn[c] = f /\ pc[c] = "panicked"

\* C20 as stated: in every state after a failed warm-up of a function its
\* gate cell is still Uninitialized.
C20_Original ==
    \A f \in Fns : WarmupFailed(f) => enabled[f] = "Uninitialized"

\* C20 (amended): a warm-up that fails writes nothing to the gate cell: the
\* failing step leaves the cell Uninitialized and releases it, the failed
\* caller obtains neither a value nor UnsupportedCall, and the cell stays
\* Uninitialized until a later run of the computation completes; a call
\* that arrives at the empty, released cell starts the computation again.
C20_FailedWarmupWritesNothing ==
    /\ [](\A f \in Fns :
            /\ cell_writes[f] = 0 => enabled[f] = "Uninitialized"
            /\ enabled[f] # "Uninitialized" =>
                  \E c \in Callers :
                      /\ fn[c] = f
                      /\ pc[c] # "panicked"
                      /\ observed[c] = CellBool(enabled[f]))
    /\ [](\A c \in Callers :
            /\ pc[c] = "panicked" =>
                  /\ observed[c] = "none"
                  /\ result[c] = NoResult
                  /\ impl_calls[c] = 0
                  /\ c \notin running[fn[c]]
            /\ (/\ pc[c] = "gate"
                /\ enabled[fn[c]] = "Uninitialized"
                /\ running[fn[c]] = {}) => ENABLED StartInit(c))
    /\ [][\A c \in Callers :
            (pc[c] # "panicked" /\ pc'[c] = "panicked") =>
                /\ pc[c] \in {"resolve", "compute"}
                /\ enabled[fn[c]] = "Uninitialized"
                /\ enabled' = enabled
                /\ cell_writes' = cell_writes
                /\ running'[fn[c]] = {}]_vars

C20_Witness ==
    \E f \in Fns :
        /\ WarmupFailed(f)
        /\ computations[f] = 2
        /\ enabled[f] = "Enabled"

\* The list of declaration d a trace entry names.
ListOf(d, which) == IF which = "valid" THEN d.valid ELSE d.invalid

\* C16 as stated: when the resolved version matches some invalid
\* requirement, the computation produces false without parsing any entry of
\* the valid list.
C16_Original ==
    (parsed # NoTrace /\ SomeMatches(decl[parsed.fn].invalid, hostVersion)) =>
        /\ \A i \in 1..Len(parsed.trace) : parsed.trace[i][1] # "valid"
        /\ parsed.value = "false"

\* C16 (amended): the gate computation evaluates the valid list before the
\* invalid list and evaluates both, each left to right up to its first
\* match; only the decision reads the invalid result first.  A malformed
\* valid literal that the evaluation reaches aborts the warm-up before any
\* invalid literal is parsed, also when the version is excluded by an
\* invalid requirement.
C16_ValidEvaluatedFirst ==
    (parsed # NoTrace /\ VersioningNew(hostVersion).ok) =>
        LET d == decl[parsed.fn]
            t == parsed.trace
            v == VersioningNew(hostVersion).v
        IN  /\ \A i, j \in 1..Len(t) :
                  (i < j /\ t[i][1] = "invalid") => t[j][1] = "invalid"
            /\ Len(d.valid) > 0 => t[1] = <<"valid", 1>>
            /\ \A i \in 1..Len(t) :
                  \A k \in 1..(t[i][2] - 1) :
                      /\ RequirementNew(ListOf(d, t[i][1])[k]).ok
                      /\ ~Matches(RequirementNew(ListOf(d, t[i][1])[k]), v)
            /\ ReachedMalformed(d.valid, hostVersion) =>
                  /\ parsed.value = "panic"
                  /\ \A i \in 1..Len(t) : t[i][1] = "valid"
            /\ (~ReachedMalformed(d.valid, hostVersion) /\ Len(d.invalid) > 0) =>
                  \E i \in 1..Len(t) : t[i] = <<"invalid", 1>>
            /\ (/\ ~ReachedMalformed(d.valid, hostVersion)
                /\ ~ReachedMalformed(d.invalid, hostVersion)
                /\ SomeMatches(d.invalid, hostVersion)) => parsed.value = "false"

C16_Witness ==
    /\ parsed.value = "panic"
    /\ parsed.trace = << <<"valid", 1>> >>
    /\ ~RequirementNew(decl[parsed.fn].valid[1]).ok
    /\ SomeMatches(decl[parsed.fn].invalid, hostVersion)

\* C13: a step of a call to one wrapped function leaves the gate cell, the
\* requirement lists and the computation in progress of every other wrapped
\* function unchanged, and the value a function's cell takes is the one its
\* own lists give for the resolved version, whatever the other cells hold.
C13_GatesIndependent ==
    /\ [](\A g \in Fns :
            enabled[g] # "Uninitialized" =>
                enabled[g] = CellOf(GateCompute(decl[g], hostVersion)))
    /\ [][\A g \in Fns :
            /\ decl'[g] = decl[g]
            /\ \A c \in Callers :
                  (pc'[c] # pc[c] /\ fn'[c] # g) =>
                      /\ enabled'[g] = enabled[g]
                      /\ running'[g] = running[g]
                      /\ cell_writes'[g] = cell_writes[g]
                      /\ computations'[g] = computations[g]]_vars

C13_Witness ==
    \E f, g \in Fns :
        /\ f # g
        /\ enabled[f] = "Enabled"
        /\ enabled[g] = "Uninitialized"
        /\ VersioningNew(hostVersion).ok
        /\ \E c \in Callers : fn[c] = g /\ pc[c] = "panicked"

\* C17 as stated: every call that entered a wrapper eventually returns.
C17_Original ==
    \A c \in Callers : (pc[c] = "gate") ~> (pc[c] = "done")

\* C17 (amended): under fair scheduling every call that entered a wrapper
\* eventually returns or aborts in the warm-up; a caller waits only while
\* another caller runs the computation of the same function: it reads an
\* initialized cell at once, and it runs the computation itself when the
\* cell is empty and nobody computes it.
C17_CallsReturnOrAbort ==
    /\ \A c \in Callers : (pc[c] = "gate") ~> (pc[c] \in {"done", "panicked"})
    /\ [](\A c \in Callers :
            pc[c] = "gate" =>
                /\ enabled[fn[c]] # "Uninitialized" => ENABLED GetInitialized(c)
                /\ (enabled[fn[c]] = "Uninitialized" /\ running[fn[c]] = {})
                      => ENABLED StartInit(c)
                /\ ENABLED Step(c) \/ \E w \in Callers \ {c} :
                                          /\ fn[w] = fn[c]
                                          /\ w \in running[fn[c]]
                                          /\ ENABLED Step(w))

C17_Witness ==
    \E c, w \in Callers :
        /\ c # w
        /\ fn[c] = fn[w]
        /\ pc[c] = "panicked"
        /\ impl_calls[w] = 1
        /\ pc[w] = "done"
        /\ computations[fn[c]] = 2

\* The declaration has a receiver parameter, at whatever position.
HasReceiver(it) == \E i \in 1..Len(it.inputs) : it.inputs[i].arg = "Receiver"

GeneratedNames(n) == { m.name : m \in { k \in scope : k.owner = n /\ k.name # n } }

\* C14 as stated: for two wrapped functions with different names declared
\* in the same scope, no generated name of one equals a generated name of
\* the other.
C14_Original ==
    \A n1, n2 \in { k.owner : k \in scope } :
        n1 # n2 => GeneratedNames(n1) \cap GeneratedNames(n2) = {}

\* The items of an expansion that satisfy a test.
ItemsWhere(e, Test(_)) == { i \in 1..Len(e.items) : Test(e.items[i]) }

\* The attributes that are documentation comments, in their order.
DocComments(attrs) ==
    SelectSeq(attrs, LAMBDA a : a.meta = "NameValue" /\ a.path = <<"doc">>)

C19_ArgumentsForwardedInOrder ==
    (item # NoEmit /\ emitted.kind = "items") =>
        \A i \in ItemsWhere(emitted, LAMBDA x : x.ident = item.ident) :
            LET w == emitted.items[i]
            IN  /\ Len(w.block.call_args) = Len(item.inputs)
                /\ \A k \in 1..Len(item.inputs) :
                      w.block.call_args[k] = item.inputs[k].pat
                /\ \A argv \in [1..Len(item.inputs) -> ArgValues] :
                      /\ Len(Forwarded(w, argv)) = Len(argv)
                      /\ \A k \in 1..Len(argv) : Forwarded(w, argv)[k] = argv[k]

C19_Witness ==
    /\ item # NoEmit
    /\ emitted.kind = "items"
    /\ Len(item.inputs) = 2
    /\ item.inputs[1].pat = "b"
    /\ emitted.items[5].block.call_args = <<"b", "a">>

IsUnsignedInteger(piece) ==
    Len(piece) > 0 /\ \A i \in 1..Len(piece) : piece[i] \in Digits

\* A decimal u32 literal: an optional "+", one or more digits, the value at
\* most 4294967295.
Unsigned(piece) == IF Len(piece) > 0 /\ piece[1] = "+" THEN Tail(piece) ELSE piece

IsU32Literal(piece) ==
    /\ IsUnsignedInteger(Unsigned(piece))
    /\ ~ExceedsU32(Canonical(Unsigned(piece)))

\* The pieces after "python" in the final component, if it has that prefix.
VersionPieces(path) ==
    IF path.kind = "normal" /\ StartsWith(path.name, Python)
    THEN Split(SubSeq(path.name, Len(Python) + 1, Len(path.name)), ".")
    ELSE <<>>

\* C25 as stated: parse_from_include_dir succeeds exactly when the final
\* component is "python" followed by two or three dot-separated unsigned
\* integers.
C25_Original ==
    (include_dir # NoInput /\ include_dir.result # NotYet) =>
        (include_dir.result.ok <=>
            /\ Len(VersionPieces(include_dir.path)) \in {2, 3}
            /\ \A i \in 1..Len(VersionPieces(include_dir.path)) :
                   IsUnsignedInteger(VersionPieces(include_dir.path)[i]))

\* C25 (amended): parse_from_include_dir succeeds exactly when the final
\* path component is "python" followed by two or three dot-separated decimal
\* u32 literals (digits with an optional leading "+", value at most
\* 4294967295); two components yield (X, Y, 0) and three (X, Y, Z), the
\* values being those of the literals; every other path yields an error and
\* no version.
C25_ParsesU32Components ==
    (include_dir # NoInput /\ include_dir.result # NotYet) =>
        LET ps == VersionPieces(include_dir.path)
            r == include_dir.result
            value(i) == Canonical(Unsigned(ps[i]))
        IN  /\ r.ok <=> (Len(ps) \in {2, 3} /\ \A i \in 1..Len(ps) : IsU32Literal(ps[i]))
            /\ (r.ok /\ Len(ps) = 2) =>
                   r.version = PythonVersionNew(value(1), value(2), Zero)
            /\ (r.ok /\ Len(ps) = 3) =>
                   r.version = PythonVersionNew(value(1), value(2), value(3))
            /\ ~r.ok => (r.version = NoVersion /\ r.err # "")
            /\ (include_dir.path.kind = "normal" /\ ~StartsWith(include_dir.path.name, Python))
                   => ~r.ok
            /\ (\E i \in 1..Len(ps) : ~IsU32Literal(ps[i])) => ~r.ok

C25_Witness ==
    /\ include_dir # NoInput
    /\ include_dir.path.kind = "normal"
    /\ include_dir.path.name = Python \o <<"+", "3", ".", "0", "9">>
    /\ include_dir.result.ok
    /\ include_dir.result.version = PythonVersionNew(<<"3">>, <<"9">>, Zero)

\* C26: for every version v, parse_from_include_dir applied to "python"
\* followed by v's Display string returns v; Display writes two components
\* when the patch is 0 and three otherwise.
C26_DisplayParseRoundTrip ==
    (py_version # NoInput /\ py_version.reparsed # NotYet) =>
        /\ py_version.reparsed.ok
        /\ py_version.reparsed.version = py_version.v
        /\ Len(Split(py_version.shown.s, ".")) =
               IF py_version.v.patch = Zero THEN 2 ELSE 3

C26_Witness ==
    /\ py_version # NoInput
    /\ py_version.v = PythonVersionNew(<<"3">>, U32MaxNumeral, Zero)
    /\ py_version.shown.s = <<"3", ".">> \o U32MaxNumeral
    /\ py_version.reparsed.ok
    /\ py_version.reparsed.version = py_version.v

\* ---- C23, C24: library search
\* The regular files of the directory that have a Python library name.
LibraryFiles(dir, config) ==
    { p \in Paths :
        /\ p.kind = "normal"
        /\ IsPythonLibraryName(p.name, config)
        /\ \E i \in 1..Len(dir.entries) :
               dir.entries[i].path = p /\ dir.entries[i].is_file }

\* C23 as stated: Ok only for exactly one selected candidate; "does not
\* exist" for a missing directory, "No Python library file found" for a
\* directory without a library file, "Multiple Python library files" for a
\* directory with library files of two different Python versions and no
\* generic library, under both configurations.
C23_Original ==
    (lib_dir # NoInput /\ lib_dir.result # NotSearched) =>
        LET r == lib_dir.result
            libs == LibraryFiles(lib_dir.dir, lib_dir.config)
        IN  /\ r.ok => r.file \in libs
            /\ ~lib_dir.dir.exists => r.err = "Library directory does not exist"
            /\ (lib_dir.dir.exists /\ lib_dir.dir.readable /\ libs = {}) =>
                   r.err = "No Python library file found"
            /\ (/\ lib_dir.dir.exists
                /\ lib_dir.dir.readable
                /\ \E p \in libs : p.name \in Names39
                /\ \E p \in libs : p.name \in Names310
                /\ \A p \in libs : p.name # lib_dir.config.generic_lib_name) =>
                   r.err = "Multiple Python library files found"

\* A list is a sub-list of another: its elements, in the same order.
RECURSIVE IsSubList(_, _)
IsSubList(sub, list) ==
    IF sub = <<>> THEN TRUE
    ELSE IF list = <<>> THEN FALSE
    ELSE IF Head(sub) = Head(list) THEN IsSubList(Tail(sub), Tail(list))
    ELSE IsSubList(sub, Tail(list))

\* C24 as stated: for every non-empty input list the output is a non-empty
\* sub-list of the input, and a single-element list is returned unchanged.
C24_Original ==
    (lib_found # NoInput /\ lib_found.filtered) =>
        /\ IsSubList(lib_found.files, lib_found.given)
        /\ Len(lib_found.given) > 0 => Len(lib_found.files) > 0
        /\ Len(lib_found.given) = 1 => lib_found.files = lib_found.given

\* ---- C22: discovery strategies
\* The string occurs among the messages of the error.
Mentions(err, message) == \E i \in 1..Len(err) : err[i] = message

\* The messages of part come one after the other somewhere in err.
ContainsChain(err, part) ==
    \E i \in 1..(Len(err) - Len(part) + 1) : SubSeq(err, i, i + Len(part) - 1) = part

ApiNames ==
    {"save_snapshot", "take_snapshot", "restore_snapshot", "delete_snapshot",
     "snapshot_size_used", "list_snapshots", "snapshots_ignore_class"}

\* The configurations the claim is about: 6.0.173 and later patches with
\* major 6, and major 7.
Supported(config) ==
    \/ <<7>> \in config
    \/ \E p \in 173..MaxPatch : <<6, 0, p>> \in config

\* C27 as stated: in every such configuration each snapshot API name has at
\* most one active definition, and every active definition that mentions
\* SnapshotError is active only where the SnapshotError alias is active.
C27_Original ==
    (build # NoInput /\ build.pc = "done" /\ Supported(build.config)) =>
        /\ \A name \in ApiNames : Cardinality(Definitions(build.active, name)) <= 1
        /\ \A i \in build.active :
               SnapshotItems[i].uses_error =>
                   Definitions(build.active, "SnapshotError") # {}

====
